---- MODULE Spec2Model ----
(***************************************************************************)
(* MCPClient of src/api/mcp/salesforce-server.js: the stdio client that    *)
(* spawns a child process, frames newline-delimited JSON messages, and     *)
(* correlates responses to pending requests by id.                         *)
(*                                                                         *)
(* Spec      : the request/response protocol of the client instances; the  *)
(*             child delivers one complete line per data event.            *)
(* SpecLive  : one client instance, with the fairness of its timers.       *)
(* SpecFrame : the framing of handleData; the child's output reaches the   *)
(*             client cut into arbitrary chunks.                           *)
(* SpecReconnect : one client instance on which connect() is called again  *)
(*             after disconnect() or after its child has exited.           *)
(*                                                                         *)
(* MCPManager of the same file: the table of clients by server name and    *)
(* the flat list of their tools.                                           *)
(*                                                                         *)
(* SpecManager : addServer, executeTool and disconnectAll over the client  *)
(*             instances addServer constructs, with the events of their    *)
(*             child processes.                                            *)
(*                                                                         *)
(* NLPQueryConverter of the same file: the ordered pattern table and       *)
(* convert.                                                                *)
(*                                                                         *)
(* SpecConvert : convert applied to the inputs built from a vocabulary.    *)
(*                                                                         *)
(* SalesforceMCPServer of the same file: the line handler of run() and     *)
(* handleMessage.                                                          *)
(*                                                                         *)
(* SpecServer : the lines the server reads and the responses it writes.    *)
(*                                                                         *)
(* ConversationalAgent.chatWithTools of src/api/hello/index.js: the loop   *)
(* of model calls and tool calls.                                          *)
(*                                                                         *)
(* SpecChat   : one call of chatWithTools.                                 *)
(***************************************************************************)
EXTENDS Integers, Sequences, FiniteSets, TLC

\* Total number of sendRequest calls (initialize included) over all clients.
MaxRequests == 2
\* Total number of connect() calls over all clients.
MaxSpawns == 1
\* Number of line items the child writes in SpecFrame.
MaxItems == 2

\* Two MCPClient instances (new MCPClient(config)).
Clients == {"a", "b"}

VARIABLES
    clients,   \* [Clients -> client record]: the fields of each MCPClient and its runtime
    pipe,      \* SpecFrame: characters the child has written and no data event has delivered
    wire,      \* SpecFrame: all characters delivered to handleData so far
    disp,      \* SpecFrame: the messages handleData has passed to handleMessage, in order
    mgr,       \* SpecManager: the MCPManager, the clients it constructed and its calls
    conv,      \* SpecConvert: the argument of convert and the object it returned
    srv,       \* SpecServer: the lines the server has read and written
    chat       \* SpecChat: the locals of a chatWithTools call and where it stands

vars == <<clients, pipe, wire, disp, mgr, conv, srv, chat>>

-----------------------------------------------------------------------------
(* Messages and their encoding on the wire *)

\* A JSON-RPC message as the client reads it: id 0 stands for "no id field".
\* kind: "result" (id, result), "error" (id, error:{code,message}),
\* "notification" (method, no id).
Ids == 1..MaxRequests

Responses == [id : Ids, kind : {"result", "error"}]

Notification == [id |-> 0, kind |-> "notification"]

Messages == Responses \cup {Notification}

NoMsg == [id |-> 0, kind |-> "none"]

\* JSON.parse("null"): a value on which message.id throws a TypeError.
NullValue == [id |-> 0, kind |-> "null"]

\* Characters of the stream.  A message is two characters long so that a
\* chunk boundary can fall inside it.
Ch(c, m) == [ch |-> c, m |-> m]

NL == Ch("nl", NoMsg)

SP == Ch("sp", NoMsg)

GARBAGE == Ch("x", NoMsg)

NULLTOK == Ch("null", NoMsg)

\* JSON.stringify(message) as the child writes it.
Encode(m) == <<Ch("head", m), Ch("tail", m)>>

\* String.prototype.trim: the whitespace at both ends removed.
RECURSIVE TrimLeft(_)
TrimLeft(s) ==
    IF s = <<>> THEN <<>>
    ELSE IF Head(s) = SP THEN TrimLeft(Tail(s)) ELSE s

RECURSIVE TrimRight(_)
TrimRight(s) ==
    IF s = <<>> THEN <<>>
    ELSE IF s[Len(s)] = SP THEN TrimRight(SubSeq(s, 1, Len(s) - 1)) ELSE s

Trim(s) == TrimRight(TrimLeft(s))

\* JSON.parse(line): whitespace around the value is allowed; anything that is
\* not exactly one encoded value throws.
JSONParse(line) ==
    LET t == Trim(line) IN
    IF t = <<NULLTOK>> THEN [ok |-> TRUE, value |-> NullValue]
    ELSE IF \E m \in Messages : t = Encode(m)
         THEN [ok |-> TRUE, value |-> (CHOOSE m \in Messages : t = Encode(m))]
         ELSE [ok |-> FALSE, value |-> NoMsg]

\* String.prototype.split('\n'): n newlines give n + 1 pieces.
RECURSIVE SplitNL(_)
SplitNL(s) ==
    IF s = <<>> THEN << <<>> >>
    ELSE LET rest == SplitNL(Tail(s)) IN
         IF Head(s) = NL THEN << <<>> >> \o rest
         ELSE << <<Head(s)>> \o Head(rest) >> \o Tail(rest)

-----------------------------------------------------------------------------
(* The client record *)

\* The Map pendingRequests: a function from the ids present to the call whose
\* {resolve, reject} pair is stored under that id.
EmptyMap == [x \in {} |-> 0]

MapSet(f, k, v) == [x \in (DOMAIN f) \cup {k} |-> IF x = k THEN v ELSE f[x]]

MapDelete(f, k) == [x \in (DOMAIN f) \ {k} |-> f[x]]

\* new MCPClient(config)
NewClient ==
    [process         |-> 0,          \* 0: null; p > 0: the p-th child this client spawned
     requestId       |-> 0,
     pendingRequests |-> EmptyMap,
     connected       |-> FALSE,
     buffer          |-> <<>>,
     calls           |-> <<>>,       \* the promise of each sendRequest call, in call order
     timers          |-> {},         \* armed setTimeout callbacks
     procs           |-> <<>>,       \* status of each child process spawned
     stdin           |-> <<>>,       \* lines written to process.stdin, in order
     conns           |-> <<>>,       \* the promise of each connect() call
     tools           |-> <<>>]       \* this.tools

\* The promise returned by sendRequest and its {resolve, reject} pair.
\*   state, by, msg, err: how the promise was settled (by a response message,
\*   by the timeout, or by the executor throwing) and with which error;
\*   rank: its place in the order in which this client's promises settled;
\*   cb: the callbacks of the pair the client has invoked, in order.
NoErr == <<"none", "">>

NewCall(id, method) ==
    [id |-> id, method |-> method, state |-> "pending", by |-> "none",
     msg |-> NoMsg, err |-> NoErr, rank |-> 0, cb |-> <<>>]

Settled(s) == {k \in DOMAIN s.calls : s.calls[k].state # "pending"}


\* The promise of a connect() call: the child it spawned (0: spawn threw) and
\* the sendRequest call of its initialize() (0: none).
NewConn(pid, call, state) == [pid |-> pid, call |-> call, state |-> state]

\* resolve() / reject(err) of the connect() promise: only the first one counts.
SettleConn(s, j, state) ==
    IF s.conns[j].state = "pending"
    THEN [s EXCEPT !.conns[j].state = state]
    ELSE s

\* The connect() calls whose initialize() awaits call k.
ConnsOf(s, k) == {j \in DOMAIN s.conns : s.conns[j].call = k}

RECURSIVE SettleConns(_, _, _)
SettleConns(s, js, state) ==
    IF js = {} THEN s
    ELSE LET j == CHOOSE x \in js : TRUE IN
         SettleConns(SettleConn(s, j, state), js \ {j}, state)

\* A line written with this.process.stdin.write.
StdinLine(pid, kind, id, method) ==
    [pid |-> pid, kind |-> kind, id |-> id, method |-> method]

\* Mutant of InitializeContinue: connected is set whatever the outcome.
ConnectedRegardless(s, k, state) ==
    SettleConns([s EXCEPT !.connected = TRUE], ConnsOf(s, k),
                IF state = "rejected" THEN "rejected" ELSE "resolved")

\* initialize() after its await, and the .then/.catch of connect(): run as
\* microtasks once the promise of call k is settled.
\*   rejected: initialize() rejects, connect() rejects.
\*   resolved: the notification is written to this.process.stdin (a TypeError
\*   when this.process is null, which rejects), then connected = true.
InitializeContinue(s, k, state) ==
    IF state = "rejected" \/ s.process = 0
    THEN SettleConns(s, ConnsOf(s, k), "rejected")
    ELSE SettleConns(
             [s EXCEPT !.stdin = Append(@, StdinLine(s.process, "notification", 0,
                                                     "notifications/initialized")),
                       !.connected = TRUE],
             ConnsOf(s, k), "resolved")

\* resolve(value) or reject(err) of call k invoked by the client: the promise
\* takes the first settlement only; awaiting code continues after it.
Invoke(s, k, state, by, m, err) ==
    LET c     == s.calls[k]
        fresh == c.state = "pending"
        s1    == [s EXCEPT !.calls[k] =
                     IF fresh
                     THEN [c EXCEPT !.cb = Append(@, IF state = "resolved" THEN "resolve" ELSE "reject"),
                                    !.state = state, !.by = by, !.msg = m, !.err = err,
                                    !.rank = Cardinality(Settled(s)) + 1]
                     ELSE [c EXCEPT !.cb = Append(@, IF state = "resolved" THEN "resolve" ELSE "reject")]]
    IN IF fresh /\ c.method = "initialize"
       THEN InitializeContinue(s1, k, state)
       ELSE s1

\* if (message.id !== undefined && this.pendingRequests.has(message.id))
IsPending(s, m) == m.id # 0 /\ m.id \in DOMAIN s.pendingRequests

\* Mutant of Lookup: the oldest pending pair is taken (matching by arrival
\* order instead of by id).
LookupOldest(s, m) ==
    s.pendingRequests[CHOOSE i \in DOMAIN s.pendingRequests :
                          \A j \in DOMAIN s.pendingRequests : i <= j]

\* const { resolve, reject } = this.pendingRequests.get(message.id)
Lookup(s, m) == s.pendingRequests[m.id]

\* Mutant of Forget: the entry is left in the table.
ForgetNothing(s, id) == s

\* this.pendingRequests.delete(message.id)
Forget(s, id) == [s EXCEPT !.pendingRequests = MapDelete(@, id)]

\* Mutant of Complete: the error field is not looked at.
CompleteIgnoresError(s, k, m) == Invoke(s, k, "resolved", "response", m, NoErr)

\* if (message.error) reject(new Error(message.error.message || 'MCP error'))
\* else resolve(message.result)
Complete(s, k, m) ==
    IF m.kind = "error"
    THEN Invoke(s, k, "rejected", "response", m, <<"MCP error", "">>)
    ELSE Invoke(s, k, "resolved", "response", m, NoErr)

\* handleMessage(message).  A notification is logged only; a message whose
\* id has no pending entry is dropped.
HandleMessage(s, m) ==
    IF IsPending(s, m)
    THEN Complete(Forget(s, m.id), Lookup(s, m), m)
    ELSE s

\* Mutant of AfterBadLine: the exception leaves handleData and ends the loop.
AbortLoop(rest) == <<>>

\* The catch of handleData: the line is logged and the loop goes on with the
\* lines after it.
AfterBadLine(rest) == rest

\* The for loop of handleData over the complete lines.  acc.s is the client,
\* acc.log the messages handleMessage has taken.  A line is bad when
\* JSON.parse throws, or gives null, on which message.id throws.
RECURSIVE HandleLines(_, _)
HandleLines(acc, lines) ==
    IF lines = <<>> THEN acc
    ELSE LET line == Head(lines)
             r    == JSONParse(line)
         IN IF Trim(line) = <<>> THEN HandleLines(acc, Tail(lines))
            ELSE IF r.ok /\ r.value # NullValue
                 THEN HandleLines([s   |-> HandleMessage(acc.s, r.value),
                                   log |-> Append(acc.log, r.value)],
                                  Tail(lines))
                 ELSE HandleLines(acc, AfterBadLine(Tail(lines)))

Front(q) == SubSeq(q, 1, Len(q) - 1)

\* Mutant of KeptFragment: the incomplete last line is thrown away.
DropFragment(pieces) == <<>>

\* this.buffer = lines.pop() || ''
KeptFragment(pieces) == pieces[Len(pieces)]

\* handleData(data): the client after it, and the messages it dispatched.
HandleData(s, data) ==
    LET pieces == SplitNL(s.buffer \o data) IN
    HandleLines([s   |-> [s EXCEPT !.buffer = KeptFragment(pieces)],
                 log |-> <<>>],
                Front(pieces))

\* Mutant of NextId: the id is taken from the size of the pending table.
NextIdFromSize(s) == Cardinality(DOMAIN s.pendingRequests) + 1

\* const id = ++this.requestId
NextId(s) == s.requestId + 1

\* setTimeout(() => {...}, 30000): the callback closes over id, method and the
\* reject of its own call.
ArmTimer(s, id, k) == [s EXCEPT !.timers = @ \cup {[id |-> id, call |-> k]}]

\* sendRequest(method).  this.process.stdin.write throws a TypeError inside the
\* promise executor when this.process is null: the promise is rejected with
\* it, after the entry was stored and before the timer is armed.
SendRequestOp(s, method) ==
    LET id == NextId(s)
        k  == Len(s.calls) + 1
        s1 == [s EXCEPT !.requestId = id,
                        !.pendingRequests = MapSet(@, id, k),
                        !.calls = Append(@, NewCall(id, method))]
    IN IF s.process = 0
       THEN [s1 EXCEPT !.calls[k].state = "rejected", !.calls[k].by = "throw",
                       !.calls[k].err = <<"TypeError", "">>,
                       !.calls[k].rank = Cardinality(Settled(s)) + 1]
       ELSE ArmTimer([s1 EXCEPT !.stdin = Append(@, StdinLine(s.process, "request", id, method))],
                     id, k)

\* Mutant of TimeoutOp: the promise is rejected and the entry stays.
TimeoutKeepsEntry(s, t) ==
    LET s1 == [s EXCEPT !.timers = @ \ {t}] IN
    IF t.id \in DOMAIN s1.pendingRequests
    THEN Invoke(s1, t.call, "rejected", "timeout", NoMsg,
                <<"Request timeout", s.calls[t.call].method>>)
    ELSE s1

\* The setTimeout callback of sendRequest: it fires once.
TimeoutOp(s, t) ==
    LET s1 == [s EXCEPT !.timers = @ \ {t}] IN
    IF t.id \in DOMAIN s1.pendingRequests
    THEN Invoke(Forget(s1, t.id), t.call, "rejected", "timeout", NoMsg,
                <<"Request timeout", s.calls[t.call].method>>)
    ELSE s1

\* Mutant of DisconnectOp: the child is killed and this.process is kept.
DisconnectKeepsProcess(s) ==
    IF s.process # 0
    THEN [s EXCEPT !.procs[s.process] = IF @ = "running" THEN "killed" ELSE @,
                   !.connected = FALSE]
    ELSE s

\* disconnect()
DisconnectOp(s) ==
    IF s.process # 0
    THEN [s EXCEPT !.procs[s.process] = IF @ = "running" THEN "killed" ELSE @,
                   !.process = 0,
                   !.connected = FALSE]
    ELSE s

\* Mutant of CloseOp: the exit of the child empties the pending table.
CloseClearsPending(s, p) ==
    [s EXCEPT !.procs[p] = "closed", !.connected = FALSE, !.pendingRequests = EmptyMap]

\* this.process.on('close', ...) of child p
CloseOp(s, p) == [s EXCEPT !.procs[p] = "closed", !.connected = FALSE]

\* this.process.on('error', ...) of child p: the spawn failed
ErrorOp(s, p) ==
    SettleConns([s EXCEPT !.procs[p] = "failed", !.connected = FALSE],
                {j \in DOMAIN s.conns : s.conns[j].pid = p}, "rejected")

\* connect().  spawn() throws, or returns a child: one that runs ("ok") or
\* one whose 'error' event follows ("enoent").  initialize() and its
\* sendRequest run synchronously inside the executor.
ConnectOp(s, outcome) ==
    IF outcome = "throw"
    THEN [s EXCEPT !.conns = Append(@, NewConn(0, 0, "rejected"))]
    ELSE LET p  == Len(s.procs) + 1
             s1 == [s EXCEPT !.procs = Append(@, IF outcome = "ok" THEN "running" ELSE "spawnfail"),
                             !.process = p,
                             !.conns = Append(@, NewConn(p, Len(s.calls) + 1, "pending"))]
         IN SendRequestOp(s1, "initialize")

-----------------------------------------------------------------------------
(* MCPManager *)

\* Total number of addServer calls.
MaxAdds == 2
\* Total number of executeTool calls.
MaxExecs == 1

\* A server name or a tool name is a string of characters.
NameA == <<"a">>

NameAB == <<"a", "_", "_", "b">>

ToolX == <<"x">>

ToolBX == <<"b", "_", "_", "x">>

\* config.name of the servers that are added.
ServerNames == {NameA, NameAB}

\* result.tools of the tools/list response of a child (tool.name of each
\* entry); a result without tools gives the empty list.
ToolLists == {<<>>, <<ToolX>>, <<ToolBX, ToolX>>}

\* `${config.name}__${tool.name}`
FullName(serverName, name) == serverName \o <<"_", "_">> \o name

\* { ...tool, serverName: config.name, fullName: ... }
ToolEntry(serverName, name) ==
    [name |-> name, serverName |-> serverName, fullName |-> FullName(serverName, name)]

\* new MCPManager(), with the client instances its addServer calls have
\* constructed (heap[j] is the client of the j-th call), the addServer calls
\* (adds) and the executeTool calls (execs).
NewManager ==
    [clients  |-> EmptyMap,
     allTools |-> <<>>,
     heap     |-> <<>>,
     adds     |-> <<>>,
     execs    |-> <<>>]

\* An addServer(config) call: the tools its child lists, where the call
\* stands (awaiting connect(), awaiting listTools(), returned), the
\* sendRequest call of its listTools() and what it returned.
NewAdd(name, tools) ==
    [name |-> name, tools |-> tools, stage |-> "connect", call |-> 0,
     result |-> "pending"]

\* catch (err) { return { success: false, error: err.message } }
AddServerFail(m, j) ==
    [m EXCEPT !.adds[j].stage = "done", !.adds[j].result = "failure"]

\* The entries pushed for the tools of one server, in the order listed.
Entries(name, tools) == [i \in DOMAIN tools |-> ToolEntry(name, tools[i])]

\* this.clients.set(config.name, client); the push of each tool;
\* return { success: true, tools }
AddServerStore(m, j) ==
    LET a == m.adds[j] IN
    [m EXCEPT !.clients = MapSet(@, a.name, j),
              !.allTools = @ \o Entries(a.name, a.tools),
              !.adds[j].stage = "done",
              !.adds[j].result = "success"]

\* addServer after await client.listTools(): listTools() has stored
\* this.tools = result.tools || [] when its request was resolved.
AfterList(m, j) ==
    LET a  == m.adds[j]
        st == m.heap[j].calls[a.call].state
    IN IF st = "pending" THEN m
       ELSE IF st = "rejected" THEN AddServerFail(m, j)
       ELSE AddServerStore([m EXCEPT !.heap[j].tools = a.tools], j)

\* Mutant of ListTools: the client is stored in the table before its tools
\* are listed.
ListToolsStored(m, j) ==
    [m EXCEPT !.clients = MapSet(@, m.adds[j].name, j),
              !.heap[j] = SendRequestOp(@, "tools/list"),
              !.adds[j].stage = "list",
              !.adds[j].call = Len(m.heap[j].calls) + 1]

\* client.listTools() up to its await: sendRequest('tools/list')
ListTools(m, j) ==
    [m EXCEPT !.heap[j] = SendRequestOp(@, "tools/list"),
              !.adds[j].stage = "list",
              !.adds[j].call = Len(m.heap[j].calls) + 1]

\* addServer after await client.connect()
AfterConnect(m, j) ==
    LET st == m.heap[j].conns[1].state IN
    IF st = "pending" THEN m
    ELSE IF st = "rejected" THEN AddServerFail(m, j)
    ELSE AfterList(ListTools(m, j), j)

\* The continuation of the j-th addServer call: it runs as a microtask when
\* the promise it awaits is settled, before the next event is handled.
AddServerContinue(m, j) ==
    IF m.adds[j].stage = "connect" THEN AfterConnect(m, j)
    ELSE IF m.adds[j].stage = "list" THEN AfterList(m, j)
    ELSE m

\* addServer(config) up to its first await: new MCPClient(config) and
\* client.connect().
AddServerOp(m, name, tools, outcome) ==
    LET j == Len(m.heap) + 1 IN
    AddServerContinue([m EXCEPT !.heap = Append(@, ConnectOp(NewClient, outcome)),
                                !.adds = Append(@, NewAdd(name, tools))],
                      j)

\* getTools()
GetTools(m) == m.allTools

\* getStatus()
GetStatus(m) ==
    [n \in DOMAIN m.clients |->
        [connected |-> m.heap[m.clients[n]].connected,
         toolCount |-> Len(m.heap[m.clients[n]].tools)]]

\* An executeTool call: the error it threw, or the client (inst) and the
\* tool name it gave to callTool.
NewExec(fullName, outcome, inst, name) ==
    [fullName |-> fullName, outcome |-> outcome, inst |-> inst, name |-> name]

\* Mutant of Find: an entry is also found by its tool name alone.
FindByName(tools, fullName) ==
    LET S == {i \in DOMAIN tools :
                  tools[i].fullName = fullName \/ tools[i].name = fullName}
    IN IF S = {} THEN 0 ELSE CHOOSE i \in S : \A k \in S : i <= k

\* this.allTools.find(t => t.fullName === fullName): the index of the first
\* such entry, 0 for undefined.
Find(tools, fullName) ==
    LET S == {i \in DOMAIN tools : tools[i].fullName = fullName}
    IN IF S = {} THEN 0 ELSE CHOOSE i \in S : \A k \in S : i <= k

\* this.clients.get(serverName): the client instance, 0 for undefined.
GetClient(m, serverName) ==
    IF serverName \in DOMAIN m.clients THEN m.clients[serverName] ELSE 0

\* executeTool(fullName, args) up to its await: callTool(tool.name, args)
\* is sendRequest('tools/call', { name, arguments }).
ExecuteToolOp(m, fullName) ==
    LET i == Find(m.allTools, fullName) IN
    IF i = 0
    THEN [m EXCEPT !.execs = Append(@, NewExec(fullName, "Unknown tool", 0, <<>>))]
    ELSE LET tool == m.allTools[i]
             c    == GetClient(m, tool.serverName)
             ok   == IF c = 0 THEN FALSE ELSE m.heap[c].connected
         IN IF ~ok
            THEN [m EXCEPT !.execs = Append(@, NewExec(fullName, "Server not connected",
                                                       0, tool.serverName))]
            ELSE [m EXCEPT !.heap[c] = SendRequestOp(@, "tools/call"),
                           !.execs = Append(@, NewExec(fullName, "sent", c, tool.name))]

RECURSIVE DisconnectEach(_, _)
DisconnectEach(heap, S) ==
    IF S = {} THEN heap
    ELSE LET i == CHOOSE x \in S : TRUE IN
         DisconnectEach([heap EXCEPT ![i] = DisconnectOp(@)], S \ {i})

\* this.clients.values()
Values(f) == {f[x] : x \in DOMAIN f}

\* Mutant of DisconnectAllOp: the list of tools is left as it is.
DisconnectAllKeepsTools(m) ==
    [m EXCEPT !.heap = DisconnectEach(@, Values(m.clients)),
              !.clients = EmptyMap]

\* disconnectAll()
DisconnectAllOp(m) ==
    [m EXCEPT !.heap = DisconnectEach(@, Values(m.clients)),
              !.clients = EmptyMap,
              !.allTools = <<>>]

-----------------------------------------------------------------------------
(* NLPQueryConverter *)

\* Number of words of an input of SpecConvert.
MaxWords == 4

\* A string is a sequence of tokens: a word (a run of characters that are
\* not whitespace, as a tuple of characters) or one whitespace character.
Space == <<" ">>

IsSpace(t) == t = Space

LowerLetters ==
    <<"a", "b", "c", "d", "e", "f", "g", "h", "i", "j", "k", "l", "m",
      "n", "o", "p", "q", "r", "s", "t", "u", "v", "w", "x", "y", "z">>

UpperLetters ==
    <<"A", "B", "C", "D", "E", "F", "G", "H", "I", "J", "K", "L", "M",
      "N", "O", "P", "Q", "R", "S", "T", "U", "V", "W", "X", "Y", "Z">>

LowerOf == [c \in {UpperLetters[i] : i \in 1..26} |->
               LowerLetters[CHOOSE i \in 1..26 : UpperLetters[i] = c]]

UpperOf == [c \in {LowerLetters[i] : i \in 1..26} |->
               UpperLetters[CHOOSE i \in 1..26 : LowerLetters[i] = c]]

\* String.prototype.toLowerCase / toUpperCase on a word
ToLowerCase(t) == [i \in DOMAIN t |-> IF t[i] \in DOMAIN LowerOf THEN LowerOf[t[i]] ELSE t[i]]

ToUpperCase(t) == [i \in DOMAIN t |-> IF t[i] \in DOMAIN UpperOf THEN UpperOf[t[i]] ELSE t[i]]

\* The characters \w matches.
WordChars ==
    DOMAIN LowerOf \cup DOMAIN UpperOf
        \cup {"0", "1", "2", "3", "4", "5", "6", "7", "8", "9", "_"}

\* String.prototype.trim on a string of tokens
RECURSIVE StrTrimLeft(_)
StrTrimLeft(s) ==
    IF s = <<>> THEN <<>>
    ELSE IF IsSpace(Head(s)) THEN StrTrimLeft(Tail(s)) ELSE s

RECURSIVE StrTrimRight(_)
StrTrimRight(s) ==
    IF s = <<>> THEN <<>>
    ELSE IF IsSpace(s[Len(s)]) THEN StrTrimRight(SubSeq(s, 1, Len(s) - 1)) ELSE s

StrTrim(s) == StrTrimRight(StrTrimLeft(s))

\* String.prototype.startsWith on a word
StartsWith(t, lit) == Len(t) >= Len(lit) /\ SubSeq(t, 1, Len(lit)) = lit

EndsWith(t, lit) ==
    Len(t) >= Len(lit) /\ SubSeq(t, Len(t) - Len(lit) + 1, Len(t)) = lit

Contains(t, lit) ==
    \E i \in 1..(Len(t) - Len(lit) + 1) : SubSeq(t, i, i + Len(lit) - 1) = lit

\* The elements of a pattern.  A pattern is not anchored: its first word may
\* end a longer word of the input and its last word may begin one; a word
\* next to \s+ ends, or begins, where the whitespace is.
Wd(alts) == [k |-> "word", alts |-> alts]       \* (?:w1|w2|...)

Spaces == [k |-> "spaces", alts |-> {}]          \* \s+

OneSpace == [k |-> "space", alts |-> {}]         \* the space of 'how many'

Opt(alts) == [k |-> "opt", alts |-> alts]       \* (?:word\s+)?

CapWord == [k |-> "capword", alts |-> {}]        \* (\w+)

CapRest == [k |-> "caprest", alts |-> {}]        \* (.+)

\* The words of the patterns, in lower case (the patterns have the i flag).
Words ==
    [verbs |-> {<<"s", "h", "o", "w">>, <<"l", "i", "s", "t">>, <<"g", "e", "t">>, <<"f", "i", "n", "d">>},
     all |-> {<<"a", "l", "l">>},
     accounts |-> {<<"a", "c", "c", "o", "u", "n", "t">>, <<"a", "c", "c", "o", "u", "n", "t", "s">>},
     inFrom |-> {<<"i", "n">>, <<"f", "r", "o", "m">>},
     largest |-> {<<"l", "a", "r", "g", "e", "s", "t">>, <<"b", "i", "g", "g", "e", "s", "t">>, <<"t", "o", "p">>},
     contacts |-> {<<"c", "o", "n", "t", "a", "c", "t">>, <<"c", "o", "n", "t", "a", "c", "t", "s">>},
     atForFrom |-> {<<"a", "t">>, <<"f", "o", "r">>, <<"f", "r", "o", "m">>},
     opps |-> {<<"o", "p", "p", "o", "r", "t", "u", "n", "i", "t", "i", "e", "s">>, <<"o", "p", "p">>, <<"o", "p", "p", "s">>, <<"d", "e", "a", "l">>, <<"d", "e", "a", "l", "s">>},
     openActive |-> {<<"o", "p", "e", "n">>, <<"a", "c", "t", "i", "v", "e">>},
     won |-> {<<"w", "o", "n">>},
     lost |-> {<<"l", "o", "s", "t">>},
     oppsDeals |-> {<<"o", "p", "p", "o", "r", "t", "u", "n", "i", "t", "i", "e", "s">>, <<"d", "e", "a", "l">>, <<"d", "e", "a", "l", "s">>},
     closing |-> {<<"c", "l", "o", "s", "i", "n", "g">>},
     this |-> {<<"t", "h", "i", "s">>},
     month |-> {<<"m", "o", "n", "t", "h">>},
     pipeline |-> {<<"p", "i", "p", "e", "l", "i", "n", "e">>, <<"f", "o", "r", "e", "c", "a", "s", "t">>},
     leads |-> {<<"l", "e", "a", "d">>, <<"l", "e", "a", "d", "s">>},
     newRecent |-> {<<"n", "e", "w">>, <<"r", "e", "c", "e", "n", "t">>},
     hotQualified |-> {<<"h", "o", "t">>, <<"q", "u", "a", "l", "i", "f", "i", "e", "d">>},
     cases |-> {<<"c", "a", "s", "e">>, <<"c", "a", "s", "e", "s">>, <<"t", "i", "c", "k", "e", "t">>, <<"t", "i", "c", "k", "e", "t", "s">>},
     users |-> {<<"u", "s", "e", "r">>, <<"u", "s", "e", "r", "s">>},
     how |-> {<<"h", "o", "w">>},
     many |-> {<<"m", "a", "n", "y">>},
     count |-> {<<"c", "o", "u", "n", "t">>}]

\* The text of a template is one token; the markers stand for ${match[1]}
\* and ${match[1].trim()}.
Text(s) == <<s>>

Cap == <<"${match[1]}">>

CapTrimmed == <<"${match[1].trim()}">>

Listing(noun) == <<Wd(Words.verbs), Spaces, Opt(Words.all), Wd(noun)>>

Counting(noun) ==
    << <<Wd(Words.how), OneSpace, Wd(Words.many), Spaces, Wd(noun)>>,
       <<Wd(Words.count), Spaces, Wd(noun)>> >>

Rule(alts, template) == [pattern |-> alts, template |-> template]

\* this.patterns.  In (?:won|closed[\s-]?won) and (?:lost|closed[\s-]?lost)
\* every match of the second alternative ends with a match of the first.
Patterns == <<
    Rule(<<Listing(Words.accounts)>>,
         <<Text("SELECT Id, Name, Industry, Type, Phone, Website FROM Account LIMIT 100")>>),
    Rule(<< <<Wd(Words.accounts), Spaces, Wd(Words.inFrom), Spaces, CapWord>> >>,
         <<Text("SELECT Id, Name, Industry, Type FROM Account WHERE BillingState = '"), Cap,
           Text("' OR BillingCountry = '"), Cap, Text("' LIMIT 100")>>),
    Rule(<< <<Wd(Words.largest), Spaces, Wd(Words.accounts)>> >>,
         <<Text("SELECT Id, Name, AnnualRevenue, Industry FROM Account WHERE AnnualRevenue != null ORDER BY AnnualRevenue DESC LIMIT 10")>>),
    Rule(<<Listing(Words.contacts)>>,
         <<Text("SELECT Id, Name, Email, Phone, Account.Name FROM Contact LIMIT 100")>>),
    Rule(<< <<Wd(Words.contacts), Spaces, Wd(Words.atForFrom), Spaces, CapRest>> >>,
         <<Text("SELECT Id, Name, Email, Phone FROM Contact WHERE Account.Name LIKE '%"), CapTrimmed,
           Text("%' LIMIT 100")>>),
    Rule(<<Listing(Words.opps)>>,
         <<Text("SELECT Id, Name, Amount, StageName, CloseDate, Account.Name FROM Opportunity LIMIT 100")>>),
    Rule(<< <<Wd(Words.openActive), Spaces, Wd(Words.opps)>> >>,
         <<Text("SELECT Id, Name, Amount, StageName, CloseDate, Account.Name FROM Opportunity WHERE IsClosed = false ORDER BY Amount DESC LIMIT 100")>>),
    Rule(<< <<Wd(Words.won), Spaces, Wd(Words.opps)>> >>,
         <<Text("SELECT Id, Name, Amount, CloseDate, Account.Name FROM Opportunity WHERE StageName = 'Closed Won' ORDER BY CloseDate DESC LIMIT 100")>>),
    Rule(<< <<Wd(Words.lost), Spaces, Wd(Words.opps)>> >>,
         <<Text("SELECT Id, Name, Amount, CloseDate, Account.Name FROM Opportunity WHERE StageName = 'Closed Lost' ORDER BY CloseDate DESC LIMIT 100")>>),
    Rule(<< <<Wd(Words.oppsDeals), Spaces, Wd(Words.closing), Spaces, Opt(Words.this), Wd(Words.month)>> >>,
         <<Text("SELECT Id, Name, Amount, StageName, CloseDate, Account.Name FROM Opportunity WHERE CloseDate = THIS_MONTH AND IsClosed = false")>>),
    Rule(<< <<Wd(Words.pipeline)>> >>,
         <<Text("SELECT StageName, COUNT(Id) numDeals, SUM(Amount) totalValue FROM Opportunity WHERE IsClosed = false GROUP BY StageName")>>),
    Rule(<<Listing(Words.leads)>>,
         <<Text("SELECT Id, Name, Email, Company, Status, LeadSource FROM Lead LIMIT 100")>>),
    Rule(<< <<Wd(Words.newRecent), Spaces, Wd(Words.leads)>> >>,
         <<Text("SELECT Id, Name, Email, Company, Status, CreatedDate FROM Lead ORDER BY CreatedDate DESC LIMIT 50")>>),
    Rule(<< <<Wd(Words.hotQualified), Spaces, Wd(Words.leads)>> >>,
         <<Text("SELECT Id, Name, Email, Company, Status FROM Lead WHERE Rating = 'Hot' OR Status = 'Qualified' LIMIT 100")>>),
    Rule(<<Listing(Words.cases)>>,
         <<Text("SELECT Id, CaseNumber, Subject, Status, Priority, Account.Name FROM Case LIMIT 100")>>),
    Rule(<< <<Wd(Words.openActive), Spaces, Wd(Words.cases)>> >>,
         <<Text("SELECT Id, CaseNumber, Subject, Status, Priority, Account.Name FROM Case WHERE IsClosed = false ORDER BY Priority LIMIT 100")>>),
    Rule(<<Listing(Words.users)>>,
         <<Text("SELECT Id, Name, Email, Profile.Name, IsActive FROM User WHERE IsActive = true LIMIT 100")>>),
    Rule(Counting(Words.accounts), <<Text("SELECT COUNT() FROM Account")>>),
    Rule(Counting(Words.contacts), <<Text("SELECT COUNT() FROM Contact")>>),
    Rule(Counting(Words.oppsDeals), <<Text("SELECT COUNT() FROM Opportunity")>>),
    Rule(Counting(Words.leads), <<Text("SELECT COUNT() FROM Lead")>>) >>

NoMatch == [ok |-> FALSE, cap |-> <<>>]

\* A word of a pattern against a word of the input (both in lower case).
WordMatch(t, lit, atStart, atEnd) ==
    IF atStart /\ atEnd THEN t = lit
    ELSE IF atStart THEN StartsWith(t, lit)
    ELSE IF atEnd THEN EndsWith(t, lit)
    ELSE Contains(t, lit)

\* The first position from p on that holds no whitespace.
RECURSIVE SkipSpaces(_, _)
SkipSpaces(s, p) ==
    IF p <= Len(s) /\ IsSpace(s[p]) THEN SkipSpaces(s, p + 1) ELSE p

\* The longest prefix of a word that \w+ matches.
RECURSIVE WordPrefix(_)
WordPrefix(t) ==
    IF t = <<>> THEN <<>>
    ELSE IF Head(t) \in WordChars THEN <<Head(t)>> \o WordPrefix(Tail(t)) ELSE <<>>

\* The elements i.. of a pattern against the tokens p.. of the input; low is
\* the input in lower case.  The match gives the text of group 1.
RECURSIVE MatchFrom(_, _, _, _, _)
MatchFrom(pat, low, input, i, p) ==
    IF i > Len(pat) THEN [ok |-> TRUE, cap |-> <<>>]
    ELSE LET e == pat[i] IN
         IF e.k = "word"
         THEN IF p <= Len(low) /\ ~IsSpace(low[p])
                 /\ \E lit \in e.alts : WordMatch(low[p], lit, i > 1, i < Len(pat))
              THEN MatchFrom(pat, low, input, i + 1, p + 1)
              ELSE NoMatch
         ELSE IF e.k = "spaces"
         THEN IF p <= Len(low) /\ IsSpace(low[p])
              THEN MatchFrom(pat, low, input, i + 1, SkipSpaces(low, p))
              ELSE NoMatch
         ELSE IF e.k = "space"
         THEN IF p <= Len(low) /\ IsSpace(low[p])
              THEN MatchFrom(pat, low, input, i + 1, p + 1)
              ELSE NoMatch
         ELSE IF e.k = "opt"
         THEN IF p < Len(low) /\ low[p] \in e.alts /\ IsSpace(low[p + 1])
              THEN MatchFrom(pat, low, input, i + 1, SkipSpaces(low, p + 1))
              ELSE MatchFrom(pat, low, input, i + 1, p)
         ELSE IF e.k = "capword"
         THEN IF p <= Len(low) /\ WordPrefix(input[p]) # <<>>
              THEN [ok |-> TRUE, cap |-> <<WordPrefix(input[p])>>]
              ELSE NoMatch
         ELSE IF p <= Len(low)
              THEN [ok |-> TRUE, cap |-> SubSeq(input, p, Len(input))]
              ELSE NoMatch

LowerAll(s) == [i \in DOMAIN s |-> ToLowerCase(s[i])]

\* One alternative of a pattern: the leftmost match.
MatchSeq(pat, input) ==
    LET low == LowerAll(input)
        P   == {p \in DOMAIN input : MatchFrom(pat, low, input, 1, p).ok}
    IN IF P = {} THEN NoMatch
       ELSE MatchFrom(pat, low, input, 1, CHOOSE p \in P : \A q \in P : p <= q)

\* input.match(pattern)
Match(k, input) ==
    LET alts == Patterns[k].pattern
        A    == {a \in DOMAIN alts : MatchSeq(alts[a], input).ok}
    IN IF A = {} THEN NoMatch
       ELSE MatchSeq(alts[CHOOSE a \in A : \A b \in A : a <= b], input)

\* typeof template === 'function' ? template(match) : template
RECURSIVE Instantiate(_, _)
Instantiate(template, cap) ==
    IF template = <<>> THEN <<>>
    ELSE LET piece == Head(template) IN
         (IF piece = Cap THEN cap
          ELSE IF piece = CapTrimmed THEN StrTrim(cap)
          ELSE <<piece>>) \o Instantiate(Tail(template), cap)

\* 'SELECT' and 'FIND'
Keywords == {<<"S", "E", "L", "E", "C", "T">>, <<"F", "I", "N", "D">>}

\* Mutant of IsRaw: the comparison keeps the letter case of the input.
IsRawCaseSensitive(input) ==
    /\ input # <<>>
    /\ \E kw \in Keywords : StartsWith(input[1], kw)

\* Mutant of IsRaw: the keyword is looked for anywhere in the input.
IsRawAnywhere(input) ==
    \E i \in DOMAIN input, kw \in Keywords : Contains(ToUpperCase(input[i]), kw)

\* input.toUpperCase().startsWith('SELECT') || ...startsWith('FIND')
IsRaw(input) ==
    /\ input # <<>>
    /\ \E kw \in Keywords : StartsWith(ToUpperCase(input[1]), kw)

\* Absent or null fields, and present ones.
Null == <<>>

Some(v) == <<v>>

\* The confidence, in tenths.
ConfRaw == 10

ConfPattern == 9

ConfObject == 5

ConfNone == 0

Result(soql, confidence, isRaw, pattern, suggestion, error) ==
    [soql |-> soql, confidence |-> confidence, isRaw |-> isRaw,
     pattern |-> pattern, suggestion |-> suggestion, error |-> error]

\* Mutant of FirstMatch: the loop keeps the last pattern that matches.
LastMatch(input) ==
    LET K == {k \in DOMAIN Patterns : Match(k, input).ok}
    IN IF K = {} THEN 0 ELSE CHOOSE k \in K : \A j \in K : j <= k

\* The for loop over this.patterns: the first pattern that matches, 0 for
\* none.
FirstMatch(input) ==
    LET K == {k \in DOMAIN Patterns : Match(k, input).ok}
    IN IF K = {} THEN 0 ELSE CHOOSE k \in K : \A j \in K : k <= j

\* The object names of the default (in lower case).
Objects == {<<"a", "c", "c", "o", "u", "n", "t">>, <<"c", "o", "n", "t", "a", "c", "t">>, <<"l", "e", "a", "d">>, <<"o", "p", "p", "o", "r", "t", "u", "n", "i", "t", "y">>, <<"c", "a", "s", "e">>, <<"u", "s", "e", "r">>}

\* The maximal runs of \w characters of a word, in order.
RECURSIVE WordRuns(_)
WordRuns(t) ==
    IF t = <<>> THEN <<>>
    ELSE IF Head(t) \in WordChars
         THEN LET r == WordPrefix(t) IN
              <<r>> \o WordRuns(SubSeq(t, Len(r) + 1, Len(t)))
         ELSE WordRuns(Tail(t))

RECURSIVE AllRuns(_)
AllRuns(s) == IF s = <<>> THEN <<>> ELSE WordRuns(Head(s)) \o AllRuns(Tail(s))

\* Group 1 of /\b(account|contact|lead|opportunity|case|user)s?\b/i on a run
\* of \w characters: the run, or the run without its last s; <<>> for none.
ObjectOf(r) ==
    IF ToLowerCase(r) \in Objects THEN r
    ELSE IF r # <<>> /\ ToLowerCase(<<r[Len(r)]>>) = <<"s">>
            /\ ToLowerCase(SubSeq(r, 1, Len(r) - 1)) \in Objects
         THEN SubSeq(r, 1, Len(r) - 1)
         ELSE <<>>

\* input.match(/\b(...)s?\b/i): group 1 of the leftmost match, <<>> for null.
ObjectMatch(input) ==
    LET runs == AllRuns(input)
        I    == {i \in DOMAIN runs : ObjectOf(runs[i]) # <<>>}
    IN IF I = {} THEN <<>>
       ELSE ObjectOf(runs[CHOOSE i \in I : \A j \in I : i <= j])

\* charAt(0).toUpperCase() + slice(1).toLowerCase()
Capitalize(t) == ToUpperCase(<<t[1]>>) \o ToLowerCase(SubSeq(t, 2, Len(t)))

ErrorText ==
    "Could not understand the query. Try: \"show all accounts\", \"open opportunities\", \"contacts at Acme Corp\""

\* Mutant of NotUnderstood: the input is handed back as the query.
NotUnderstoodEcho(input) ==
    Result(Some(input), ConfNone, FALSE, 0, Null, Some(ErrorText))

\* return { soql: null, confidence: 0, error: ... }
NotUnderstood(input) == Result(Null, ConfNone, FALSE, 0, Null, Some(ErrorText))

\* The default: the object name found in the input.
ByObject(input) ==
    LET objectMatch == ObjectMatch(input) IN
    IF objectMatch # <<>>
    THEN LET objectName == Capitalize(objectMatch) IN
         Result(Some(<<Text("SELECT Id, Name FROM "), objectName, Text(" LIMIT 50")>>),
                ConfObject, FALSE, 0,
                Some(<<Text("Could not parse specific query. Showing "), objectName,
                       Text(" records.")>>),
                Null)
    ELSE NotUnderstood(input)

\* convert(naturalLanguage)
Convert(naturalLanguage) ==
    LET input == StrTrim(naturalLanguage) IN
    IF IsRaw(input)
    THEN Result(Some(input), ConfRaw, TRUE, 0, Null, Null)
    ELSE LET k == FirstMatch(input) IN
         IF k # 0
         THEN Result(Some(Instantiate(Patterns[k].template, Match(k, input).cap)),
                     ConfPattern, FALSE, k, Null, Null)
         ELSE ByObject(input)

\* Before convert is called, and in the other specifications.
NoResult == <<>>

NoConversion == [input |-> <<>>, result |-> NoResult]

-----------------------------------------------------------------------------
(* SalesforceMCPServer *)

\* Number of lines the server reads.
MaxLines == 2

\* A line of stdin: text JSON.parse throws on, or a message with its id
\* (0: no id field), its method and whether it has params.
GarbageLine == [id |-> 0, method |-> "garbage", params |-> FALSE]

ServerLines ==
    {GarbageLine}
    \cup [id : 0..2,
          method : {"initialize", "tools/list", "notifications/initialized", "unknown"},
          params : {FALSE}]
    \cup [id : 0..2, method : {"tools/call"}, params : BOOLEAN]

\* new SalesforceMCPServer(), run(): the lines read so far, what became of
\* the handler of each ("running" until its await is over, "written",
\* "dropped" when it threw) and the lines written to stdout.
NewServer == [lines |-> <<>>, handlers |-> <<>>, stdout |-> <<>>]

\* handleMessage(message): what awaiting its value gives.  message.params.name
\* throws a TypeError when the message has no params; executeTool catches
\* what its calls throw and returns an object without an error field.
ServerHandleMessage(message) ==
    IF message.method \in {"initialize", "tools/list"} THEN "result"
    ELSE IF message.method = "tools/call"
         THEN IF message.params THEN "result" ELSE "throws"
         ELSE "error"

\* The line handler up to its await: JSON.parse(line) and the call of
\* handleMessage; an exception is logged in the catch.
OnLine(s, line) ==
    [s EXCEPT !.lines = Append(@, line),
              !.handlers = Append(@, IF line = GarbageLine
                                        \/ ServerHandleMessage(line) = "throws"
                                     THEN "dropped" ELSE "running")]

\* The line handler after its await: response = { jsonrpc, id: message.id }
\* with result.error as its error or result as its result, written with
\* console.log(JSON.stringify(response)); line: the line it answers.
WriteResponse(s, i) ==
    [s EXCEPT !.handlers[i] = "written",
              !.stdout = Append(@, [id |-> s.lines[i].id,
                                    kind |-> ServerHandleMessage(s.lines[i]),
                                    line |-> i])]

-----------------------------------------------------------------------------
(* ConversationalAgent.chatWithTools *)

\* while (responseMessage.tool_calls && iterations < 5)
MaxIterations == 5
\* Number of tool calls in one response of the model.
MaxToolCalls == 2

\* A chatWithTools call before it is made.
\*   pc: "idle", "model" (awaiting completions.create), "tool" (awaiting
\*   executeTool), "returned", "threw";
\*   tool_calls: of responseMessage, Null when the response has none, else the
\*   number of its entries; queue: the entries the for loop has still to run;
\*   creates: the completions.create calls made; runs: for each executeTool
\*   call, the iteration it ran in and the response that proposed it.
NewChat ==
    [pc |-> "idle", iterations |-> 0, tool_calls |-> Null, queue |-> 0,
     creates |-> 0, runs |-> <<>>, toolResults |-> 0, pushed |-> 0]

\* completion = await this.client.chat.completions.create({...})
Create(c) == [c EXCEPT !.creates = @ + 1, !.pc = "model"]

\* for (const toolCall of responseMessage.tool_calls), up to the await of
\* executeTool; after the last entry, the next completion is asked for.
ForToolCalls(c) ==
    IF c.queue = 0 THEN Create(c)
    ELSE [c EXCEPT !.pc = "tool",
                   !.runs = Append(@, [iteration |-> c.iterations,
                                       response |-> c.creates])]

\* The try/catch around executeTool: the result goes to toolResults and to
\* messages, an exception to messages only; then the next entry.
AfterTool(c, outcome) ==
    ForToolCalls([c EXCEPT !.queue = @ - 1,
                           !.toolResults = IF outcome = "ok" THEN @ + 1 ELSE @,
                           !.pushed = @ + 1])

\* Mutant of While: the test counts up to and including the limit.
WhileInclusive(c) ==
    IF c.tool_calls # Null /\ c.iterations <= MaxIterations
    THEN ForToolCalls([c EXCEPT !.iterations = @ + 1,
                                !.pushed = @ + 1,
                                !.queue = c.tool_calls[1]])
    ELSE [c EXCEPT !.pc = "returned"]

\* The test of the while loop on responseMessage and, when it holds,
\* iterations++ and messages.push(responseMessage); otherwise the return.
While(c) ==
    IF c.tool_calls # Null /\ c.iterations < MaxIterations
    THEN ForToolCalls([c EXCEPT !.iterations = @ + 1,
                                !.pushed = @ + 1,
                                !.queue = c.tool_calls[1]])
    ELSE [c EXCEPT !.pc = "returned"]

-----------------------------------------------------------------------------
(* Actions *)

RECURSIVE SumOver(_, _)
SumOver(f, S) ==
    IF S = {} THEN 0
    ELSE LET x == CHOOSE y \in S : TRUE IN f[x] + SumOver(f, S \ {x})

TotalCalls == SumOver([c \in Clients |-> Len(clients[c].calls)], Clients)

TotalConns == SumOver([c \in Clients |-> Len(clients[c].conns)], Clients)

FrameIdle == UNCHANGED <<pipe, wire, disp, mgr, conv, srv, chat>>

Init ==
    /\ clients = [c \in Clients |-> NewClient]
    /\ pipe = <<>>
    /\ wire = <<>>
    /\ disp = <<>>
    /\ mgr = NewManager
    /\ conv = NoConversion
    /\ srv = NewServer
    /\ chat = NewChat

\* connect() is called on a client that holds no live child: a new one, one
\* that was disconnected, or one whose child has exited.
CanConnect(s) ==
    IF s.process = 0 THEN TRUE ELSE s.procs[s.process] \in {"closed", "failed"}

Connect(c, outcome) ==
    /\ TotalConns < MaxSpawns
    /\ TotalCalls < MaxRequests
    /\ CanConnect(clients[c])
    /\ clients' = [clients EXCEPT ![c] = ConnectOp(@, outcome)]
    /\ FrameIdle

SendRequest(c) ==
    /\ TotalCalls < MaxRequests
    /\ clients' = [clients EXCEPT ![c] = SendRequestOp(@, "tools/call")]
    /\ FrameIdle

\* The child p of client c writes one message line and the data event
\* delivers exactly that line.
Deliver(c, p, m) ==
    /\ p \in DOMAIN clients[c].procs
    /\ clients[c].procs[p] \in {"running", "killed"}
    /\ clients' = [clients EXCEPT ![c] = HandleData(@, Encode(m) \o <<NL>>).s]
    /\ FrameIdle

TimerFire(c, t) ==
    /\ t \in clients[c].timers
    /\ clients' = [clients EXCEPT ![c] = TimeoutOp(@, t)]
    /\ FrameIdle

Disconnect(c) ==
    /\ clients' = [clients EXCEPT ![c] = DisconnectOp(@)]
    /\ FrameIdle

Close(c, p) ==
    /\ p \in DOMAIN clients[c].procs
    /\ clients[c].procs[p] \in {"running", "killed"}
    /\ clients' = [clients EXCEPT ![c] = CloseOp(@, p)]
    /\ FrameIdle

SpawnError(c, p) ==
    /\ p \in DOMAIN clients[c].procs
    /\ clients[c].procs[p] = "spawnfail"
    /\ clients' = [clients EXCEPT ![c] = ErrorOp(@, p)]
    /\ FrameIdle

-----------------------------------------------------------------------------
(* Framing: the output of the child of client "a", cut into chunks *)

FrameClient == "a"

\* The messages the child writes: the result of request 1 (initialize), an
\* error for request 2 and a notification.
FrameMsgs ==
    {[id |-> 1, kind |-> "result"], [id |-> 2, kind |-> "error"], Notification}

\* What the child writes at once: a message line (plain, or padded with
\* spaces), an empty or blank line, and lines JSON.parse or handleMessage
\* throw on (garbage, half a message, null).
FrameItems ==
    {Encode(m) \o <<NL>> : m \in FrameMsgs}
    \cup {<<SP>> \o Encode([id |-> 2, kind |-> "error"]) \o <<SP, NL>>}
    \cup {<<NL>>, <<SP, NL>>, <<GARBAGE, NL>>, <<NULLTOK, NL>>}
    \cup {<<Ch("head", [id |-> 1, kind |-> "result"]), NL>>}

NewLines(q) == Cardinality({i \in DOMAIN q : q[i] = NL})

ChildWrite(item) ==
    /\ clients[FrameClient].process # 0
    /\ NewLines(wire \o pipe) < MaxItems
    /\ pipe' = pipe \o item
    /\ UNCHANGED <<clients, wire, disp, mgr, conv, srv, chat>>

\* this.process.stdout.on('data', ...): the first n characters of the pipe.
Data(n) ==
    /\ n \in 1..Len(pipe)
    /\ LET chunk == SubSeq(pipe, 1, n)
           r     == HandleData(clients[FrameClient], chunk)
       IN /\ clients' = [clients EXCEPT ![FrameClient] = r.s]
          /\ disp' = disp \o r.log
          /\ wire' = wire \o chunk
          /\ pipe' = SubSeq(pipe, n + 1, Len(pipe))
          /\ UNCHANGED <<mgr, conv, srv, chat>>

TimerIds == [id : Ids, call : Ids]

\* Everything that can happen to client c.
Step(c) ==
    \/ \E o \in {"ok", "enoent", "throw"} : Connect(c, o)
    \/ SendRequest(c)
    \/ \E p \in 1..MaxSpawns, m \in Messages : Deliver(c, p, m)
    \/ \E t \in TimerIds : TimerFire(c, t)
    \/ Disconnect(c)
    \/ \E p \in 1..MaxSpawns : Close(c, p)
    \/ \E p \in 1..MaxSpawns : SpawnError(c, p)

Next == \E c \in Clients : Step(c)

Spec == Init /\ [][Next]_vars

MaxChunk == MaxItems * 4

NextFrame ==
    \/ Connect(FrameClient, "ok")
    \/ SendRequest(FrameClient)
    \/ \E item \in FrameItems : ChildWrite(item)
    \/ \E n \in 1..MaxChunk : Data(n)

SpecFrame == Init /\ [][NextFrame]_vars

AnyTimerFire == \E t \in TimerIds : TimerFire(FrameClient, t)

\* One client instance, with the fairness of its timers: while timers armed
\* with setTimeout are waiting, the event loop runs one of them (an armed
\* timer stays armed until it has fired).
SpecLive == Init /\ [][Step(FrameClient)]_vars /\ WF_vars(AnyTimerFire)

-----------------------------------------------------------------------------
(* SpecReconnect: connect() called again on the same client *)

\* Number of connect() calls on the client.
MaxConnects == 2

\* connect() on the client, also after disconnect() or the exit of its
\* child; the events of every child it has spawned go on arriving.
Reconnect(outcome) ==
    /\ Len(clients[FrameClient].conns) < MaxConnects
    /\ Len(clients[FrameClient].calls) < MaxRequests
    /\ CanConnect(clients[FrameClient])
    /\ clients' = [clients EXCEPT ![FrameClient] = ConnectOp(@, outcome)]
    /\ FrameIdle

NextReconnect ==
    \/ \E o \in {"ok", "enoent", "throw"} : Reconnect(o)
    \/ \E p \in 1..MaxConnects, m \in Messages : Deliver(FrameClient, p, m)
    \/ \E t \in TimerIds : TimerFire(FrameClient, t)
    \/ Disconnect(FrameClient)
    \/ \E p \in 1..MaxConnects : Close(FrameClient, p)
    \/ \E p \in 1..MaxConnects : SpawnError(FrameClient, p)

SpecReconnect == Init /\ [][NextReconnect]_vars

-----------------------------------------------------------------------------
(* SpecManager: the manager, its clients and their child processes *)

MgrIdle == UNCHANGED <<clients, pipe, wire, disp, conv, srv, chat>>

AddServer(name, tools, outcome) ==
    /\ Len(mgr.adds) < MaxAdds
    /\ mgr' = AddServerOp(mgr, name, tools, outcome)
    /\ MgrIdle

\* The qualified names executeTool is called with: those of the tools a
\* server can list, and a name that is nobody's qualified name.
ExecNames == {FullName(NameA, ToolX), FullName(NameAB, ToolX), ToolX}

ExecuteTool(fullName) ==
    /\ Len(mgr.execs) < MaxExecs
    /\ mgr' = ExecuteToolOp(mgr, fullName)
    /\ MgrIdle

DisconnectAll ==
    /\ mgr' = DisconnectAllOp(mgr)
    /\ MgrIdle

\* An event of the child of client j is handled, then the addServer call
\* that awaits this client continues.
ClientEvent(j, s) ==
    /\ mgr' = AddServerContinue([mgr EXCEPT !.heap[j] = s], j)
    /\ MgrIdle

\* The child of client j writes one message line.
MgrDeliver(j, m) ==
    /\ j \in DOMAIN mgr.heap
    /\ mgr.heap[j].procs # <<>>
    /\ mgr.heap[j].procs[1] \in {"running", "killed"}
    /\ ClientEvent(j, HandleData(mgr.heap[j], Encode(m) \o <<NL>>).s)

MgrTimerFire(j) ==
    /\ j \in DOMAIN mgr.heap
    /\ \E t \in mgr.heap[j].timers :
           /\ t.id \in DOMAIN mgr.heap[j].pendingRequests
           /\ ClientEvent(j, TimeoutOp(mgr.heap[j], t))

MgrClose(j) ==
    /\ j \in DOMAIN mgr.heap
    /\ mgr.heap[j].procs # <<>>
    /\ mgr.heap[j].procs[1] \in {"running", "killed"}
    /\ ClientEvent(j, CloseOp(mgr.heap[j], 1))

MgrSpawnError(j) ==
    /\ j \in DOMAIN mgr.heap
    /\ mgr.heap[j].procs # <<>>
    /\ mgr.heap[j].procs[1] = "spawnfail"
    /\ ClientEvent(j, ErrorOp(mgr.heap[j], 1))

NextManager ==
    \/ \E n \in ServerNames, tools \in ToolLists, o \in {"ok", "enoent", "throw"} :
           AddServer(n, tools, o)
    \/ \E f \in ExecNames : ExecuteTool(f)
    \/ DisconnectAll
    \/ \E j \in 1..MaxAdds, m \in Messages : MgrDeliver(j, m)
    \/ \E j \in 1..MaxAdds : MgrTimerFire(j)
    \/ \E j \in 1..MaxAdds : MgrClose(j)
    \/ \E j \in 1..MaxAdds : MgrSpawnError(j)

SpecManager == Init /\ [][NextManager]_vars

-----------------------------------------------------------------------------
(* SpecConvert: convert applied to the inputs built from a vocabulary *)

\* The words of the inputs.
Vocabulary ==
    {<<"s", "h", "o", "w">>,
     <<"a", "c", "c", "o", "u", "n", "t", "s">>,
     <<"i", "n">>,
     <<"C", "a", "l", "i", "f", "o", "r", "n", "i", "a">>,
     <<"c", "o", "n", "t", "a", "c", "t", "s">>,
     <<"a", "t">>,
     <<"z", "z", "z">>}

\* The words of the shorter inputs: the keywords, an irregular plural, and
\* a name with a single quote in it.
OddVocabulary ==
    {<<"S", "E", "L", "E", "C", "T">>,
     <<"F", "i", "n", "d">>,
     <<"o", "p", "p", "o", "r", "t", "u", "n", "i", "t", "i", "e", "s">>,
     <<"O", "'", "N", "e", "i", "l">>,
     <<"a", "c", "c", "o", "u", "n", "t", "s">>,
     <<"i", "n">>,
     <<"c", "o", "n", "t", "a", "c", "t">>,
     <<"a", "t">>,
     <<"z", "z", "z">>}

\* The words joined by one space each.
RECURSIVE Join(_)
Join(ws) ==
    IF ws = <<>> THEN <<>>
    ELSE IF Len(ws) = 1 THEN ws
    ELSE <<Head(ws), Space>> \o Join(Tail(ws))

\* Whitespace before and after the words.
Paddings == {<<>>, <<Space>>}

\* The strings convert is called with: up to MaxWords words of the
\* vocabulary, or fewer words of the other one, with and without whitespace
\* around them (the empty string and the blank string included).
Inputs ==
    {pad \o Join(ws) \o pad :
        ws \in UNION {[1..n -> Vocabulary] : n \in 0..MaxWords}
                 \cup UNION {[1..n -> OddVocabulary] : n \in 0..(MaxWords - 1)},
        pad \in Paddings}

InitConvert ==
    /\ clients = [c \in Clients |-> NewClient]
    /\ pipe = <<>>
    /\ wire = <<>>
    /\ disp = <<>>
    /\ mgr = NewManager
    /\ conv \in [input : Inputs, result : {NoResult}]
    /\ srv = NewServer
    /\ chat = NewChat

\* A handler calls convert(naturalLanguage).
ConvertCall ==
    /\ conv.result = NoResult
    /\ conv' = [conv EXCEPT !.result = Some(Convert(conv.input))]
    /\ UNCHANGED <<clients, pipe, wire, disp, mgr, srv, chat>>

SpecConvert == InitConvert /\ [][ConvertCall]_vars

-----------------------------------------------------------------------------
(* SpecServer: the lines the server reads and the responses it writes *)

\* rl.on('line', ...)
ReadLine(line) ==
    /\ Len(srv.lines) < MaxLines
    /\ srv' = OnLine(srv, line)
    /\ UNCHANGED <<clients, pipe, wire, disp, mgr, conv, chat>>

\* The value the handler of line i awaits is there: at once for the methods
\* handleMessage answers itself, after the Salesforce request for a tool.
Respond(i) ==
    /\ i \in DOMAIN srv.handlers
    /\ srv.handlers[i] = "running"
    /\ srv' = WriteResponse(srv, i)
    /\ UNCHANGED <<clients, pipe, wire, disp, mgr, conv, chat>>

NextServer ==
    \/ \E line \in ServerLines : ReadLine(line)
    \/ \E i \in 1..MaxLines : Respond(i)

SpecServer == Init /\ [][NextServer]_vars

-----------------------------------------------------------------------------
(* SpecChat: one call of chatWithTools *)

ChatWithTools ==
    /\ chat.pc = "idle"
    /\ chat' = Create(chat)
    /\ UNCHANGED <<clients, pipe, wire, disp, mgr, conv, srv>>

\* completions.create settles: with a message that has no tool_calls, or
\* that has n of them (the empty list included), or with an exception,
\* which ends chatWithTools.
Completion(outcome, tool_calls) ==
    /\ chat.pc = "model"
    /\ chat' = IF outcome = "ok"
               THEN While([chat EXCEPT !.tool_calls = tool_calls])
               ELSE [chat EXCEPT !.pc = "threw"]
    /\ UNCHANGED <<clients, pipe, wire, disp, mgr, conv, srv>>

\* mcpManager.executeTool settles: it resolves, or throws (unknown tool,
\* server not connected, error response, timeout).
ToolSettles(outcome) ==
    /\ chat.pc = "tool"
    /\ chat' = AfterTool(chat, outcome)
    /\ UNCHANGED <<clients, pipe, wire, disp, mgr, conv, srv>>

NextChat ==
    \/ ChatWithTools
    \/ \E o \in {"ok", "throw"}, tc \in {Null} \cup {Some(n) : n \in 0..MaxToolCalls} :
           Completion(o, tc)
    \/ \E o \in {"ok", "throw"} : ToolSettles(o)

\* Every promise chatWithTools awaits is settled: the request to the model
\* returns or fails, and executeTool ends at the latest with the timeout of
\* its request.
SpecChat == Init /\ [][NextChat]_vars /\ WF_vars(NextChat)

-----------------------------------------------------------------------------
(* Properties *)

Line(m) == Encode(m) \o <<NL>>

HasTimer(s, k) == \E t \in s.timers : t.call = k

\* C1: a sendRequest promise that a response resolved was resolved by the
\* response whose id is the id of that request, whatever the order in which
\* the responses of the pending requests arrived.
C1_ResolvedByOwnResponse ==
    \A c \in Clients : \A k \in DOMAIN clients[c].calls :
        LET call == clients[c].calls[k] IN
        call.state = "resolved" =>
            /\ call.by = "response"
            /\ call.msg.kind = "result"
            /\ call.msg.id = call.id

\* Requests 1 and 2 were pending together; the response to 2 came first, the
\* response to 1 second, and each promise has its own.
C1_Witness ==
    \E c \in Clients :
        /\ Len(clients[c].calls) = 2
        /\ clients[c].calls[2].state = "resolved"
        /\ clients[c].calls[2].msg.id = 2
        /\ clients[c].calls[2].rank = 1
        /\ clients[c].calls[1].state = "resolved"
        /\ clients[c].calls[1].msg.id = 1
        /\ clients[c].calls[1].rank = 2

\* C2: a request whose timer fired while it was pending is rejected with the
\* timeout error naming its method, by one reject, and its entry is gone; a
\* response with that id delivered later changes nothing at all.  A timer
\* that fires on a pending request does exactly that and touches no other
\* entry.
C2_TimeoutThenLateResponse ==
    \A c \in Clients :
        LET s == clients[c] IN
        /\ \A k \in DOMAIN s.calls :
               s.calls[k].by = "timeout" =>
                   /\ s.calls[k].state = "rejected"
                   /\ s.calls[k].err = <<"Request timeout", s.calls[k].method>>
                   /\ s.calls[k].cb = <<"reject">>
                   /\ s.calls[k].id \notin DOMAIN s.pendingRequests
                   /\ \A m \in Responses :
                          m.id = s.calls[k].id => HandleData(s, Line(m)).s = s
        /\ \A t \in s.timers :
               (t.id \in DOMAIN s.pendingRequests /\ s.calls[t.call].state = "pending") =>
                   LET s2 == TimeoutOp(s, t) IN
                   /\ s2.calls[t.call].by = "timeout"
                   /\ s2.pendingRequests = MapDelete(s.pendingRequests, t.id)
                   /\ \A k \in DOMAIN s.calls : k # t.call => s2.calls[k] = s.calls[k]

\* A request was rejected by its timeout and the child that got it still
\* runs, so its response can arrive late.
C2_Witness ==
    \E c \in Clients : \E k \in DOMAIN clients[c].calls :
        /\ clients[c].calls[k].by = "timeout"
        /\ clients[c].process # 0
        /\ clients[c].procs[clients[c].process] = "running"

\* C3: the client invokes at most one callback of a request's
\* {resolve, reject} pair, over all deliveries and timer firings.
C3_AtMostOneCallback ==
    \A c \in Clients : \A k \in DOMAIN clients[c].calls :
        Len(clients[c].calls[k].cb) <= 1

\* A response settled a request and the timer of that request has fired
\* afterwards: both completions came, one callback was invoked.
C3_Witness ==
    \E c \in Clients : \E k \in DOMAIN clients[c].calls :
        /\ clients[c].calls[k].by = "response"
        /\ clients[c].calls[k].cb = <<"resolve">>
        /\ ~HasTimer(clients[c], k)

\* C4: the k-th sendRequest call of a client instance has id k, and the
\* counter of an instance counts the calls made on that instance only.
C4_IdsInCallOrder ==
    \A c \in Clients :
        /\ clients[c].requestId = Len(clients[c].calls)
        /\ \A k \in DOMAIN clients[c].calls : clients[c].calls[k].id = k

\* After a timeout, a disconnect and a failed write the next id is 2, while
\* the other instance is still at 0.
C4_Witness ==
    \E c \in Clients :
        /\ Len(clients[c].calls) = 2
        /\ clients[c].calls[1].by = "timeout"
        /\ clients[c].calls[2].by = "throw"
        /\ clients[c].calls[2].id = 2
        /\ \E d \in Clients \ {c} : clients[d].requestId = 0

-----------------------------------------------------------------------------
(* Framing properties, under SpecFrame *)

\* The messages handleData dispatches when it gets the text in one chunk.
OneChunk(text) == HandleData(NewClient, text).log

\* The characters after the last newline of the text.
RECURSIVE TrailingFragment(_)
TrailingFragment(text) ==
    IF text = <<>> THEN <<>>
    ELSE IF text[Len(text)] = NL THEN <<>>
    ELSE TrailingFragment(Front(text)) \o <<text[Len(text)]>>

\* A line handleData discards: not blank, and JSON.parse throws on it or
\* gives null.
IsBadLine(line) ==
    /\ Trim(line) # <<>>
    /\ \/ ~JSONParse(line).ok
       \/ JSONParse(line).value = NullValue

RECURSIVE JoinGood(_)
JoinGood(pieces) ==
    IF Len(pieces) = 1 THEN pieces[1]
    ELSE IF IsBadLine(Head(pieces)) THEN JoinGood(Tail(pieces))
    ELSE Head(pieces) \o <<NL>> \o JoinGood(Tail(pieces))

\* The text with its discarded lines (and their newlines) taken out.
WithoutBadLines(text) == JoinGood(SplitNL(text))

R1 == [id |-> 1, kind |-> "result"]

E2 == [id |-> 2, kind |-> "error"]

\* C5: however the stream was cut into chunks, the messages dispatched so
\* far are those one chunk holding the whole text would give, in that order,
\* each once; the buffer holds the text after the last newline, undispatched.
C5_ChunkingInvisible ==
    /\ disp = OneChunk(wire)
    /\ clients[FrameClient].buffer = TrailingFragment(wire)

\* One message was dispatched and the first half of the next one waits in the
\* buffer, its second half still in the pipe: a cut inside a message.
C5_Witness ==
    /\ disp = <<R1>>
    /\ clients[FrameClient].buffer = <<Ch("head", E2)>>
    /\ pipe = <<Ch("tail", E2), NL>>

\* C6: the lines that fail to parse leave no trace: the messages dispatched
\* are those of the text without these lines, and a chunk that completes
\* such a line changes nothing of the client but the buffer.
C6_BadLinesDiscarded ==
    /\ disp = OneChunk(WithoutBadLines(wire))
    /\ \A item \in FrameItems :
           IsBadLine(clients[FrameClient].buffer \o Front(item)) =>
               HandleData(clients[FrameClient], item).s
                   = [clients[FrameClient] EXCEPT !.buffer = <<>>]

\* A garbage line came first, in the same chunk or not, and the response to
\* request 1 after it was dispatched and resolved the request.
C6_Witness ==
    /\ wire = <<GARBAGE, NL>> \o Line(R1)
    /\ disp = <<R1>>
    /\ Len(clients[FrameClient].calls) >= 1
    /\ clients[FrameClient].calls[1].state = "resolved"

-----------------------------------------------------------------------------
(* Connection properties, under Spec and SpecLive *)

IsInitRequest(l, p) ==
    l.kind = "request" /\ l.method = "initialize" /\ l.pid = p

IsInitialized(l) == l.kind = "notification"

\* C7: for a client on which connect() has been called once.  connected is
\* true only when the response to its initialize request has resolved that
\* request; 'notifications/initialized' is on stdin only then, and after the
\* initialize request; when spawn threw, the spawn failed, or the initialize
\* request was rejected (error response, timeout), the connect() promise is
\* rejected, connected is false and no notification was written.
C7_Handshake ==
    \A c \in Clients :
        LET s == clients[c] IN
        Len(s.conns) = 1 =>
            LET cn == s.conns[1] IN
            IF cn.pid = 0
            THEN /\ cn.state = "rejected"
                 /\ ~s.connected
                 /\ s.stdin = <<>>
            ELSE LET init == s.calls[cn.call] IN
                 /\ init.method = "initialize"
                 /\ s.connected =>
                        init.state = "resolved" /\ init.by = "response"
                 /\ cn.state = "resolved" => init.state = "resolved"
                 /\ \A i \in DOMAIN s.stdin :
                        IsInitialized(s.stdin[i]) =>
                            /\ init.state = "resolved"
                            /\ \E j \in 1..(i - 1) : IsInitRequest(s.stdin[j], s.stdin[i].pid)
                 /\ init.state = "rejected" =>
                        /\ cn.state = "rejected"
                        /\ ~s.connected
                        /\ \A i \in DOMAIN s.stdin : ~IsInitialized(s.stdin[i])
                 /\ s.procs[cn.pid] \in {"spawnfail", "failed"} => ~s.connected
                 /\ s.procs[cn.pid] = "failed" => cn.state = "rejected"

\* The handshake went through: the request, its response, the notification,
\* then connected.
C7_Witness ==
    \E c \in Clients :
        /\ clients[c].connected
        /\ clients[c].conns = <<NewConn(1, 1, "resolved")>>
        /\ clients[c].calls[1].msg = R1
        /\ clients[c].stdin = <<StdinLine(1, "request", 1, "initialize"),
                                StdinLine(1, "notification", 0, "notifications/initialized")>>

ExitStep(c) ==
    \/ clients[c].process # 0 /\ clients'[c].process = 0
    \/ \E p \in DOMAIN clients[c].procs :
           /\ clients[c].procs[p] \in {"running", "killed"}
           /\ p \in DOMAIN clients'[c].procs
           /\ clients'[c].procs[p] = "closed"

OpenCall(c, k) ==
    k \in DOMAIN clients[c].calls /\ clients[c].calls[k].state = "pending"

\* C8: a step in which the child exits or disconnect() runs settles no
\* request and leaves the pending table and the timers as they were; every
\* request left pending is settled later, by a response or by its timeout.
C8_SettledByTimeoutAfterExit ==
    /\ [][\A c \in Clients :
              ExitStep(c) =>
                  /\ clients'[c].pendingRequests = clients[c].pendingRequests
                  /\ clients'[c].calls = clients[c].calls
                  /\ clients'[c].timers = clients[c].timers
                  /\ clients'[c].requestId = clients[c].requestId]_vars
    /\ \A c \in Clients : \A k \in Ids :
           OpenCall(c, k) ~>
               (k \in DOMAIN clients[c].calls
                /\ clients[c].calls[k].by \in {"response", "timeout"})

\* disconnect() ran and the child exited while a request was pending, and the
\* request was rejected by its timeout afterwards, its entry removed.
C8_Witness ==
    \E c \in Clients :
        /\ clients[c].process = 0
        /\ clients[c].procs = <<"closed">>
        /\ Len(clients[c].calls) = 2
        /\ clients[c].calls[1].by = "timeout"
        /\ clients[c].calls[2].state = "pending"
        /\ DOMAIN clients[c].pendingRequests = {2}

\* C9: a message whose id has a pending entry invokes the reject of that
\* request when it carries an error and its resolve otherwise, settles it
\* accordingly, removes that entry, and touches no other request or entry.
C9_RoutedByErrorField ==
    \A c \in Clients : \A m \in Responses :
        LET s  == clients[c]
            s2 == HandleMessage(s, m)
        IN IsPending(s, m) =>
               LET k == s.pendingRequests[m.id] IN
               /\ s2.pendingRequests = MapDelete(s.pendingRequests, m.id)
               /\ s2.calls[k].cb =
                      Append(s.calls[k].cb, IF m.kind = "error" THEN "reject" ELSE "resolve")
               /\ s.calls[k].state = "pending" =>
                      /\ s2.calls[k].state =
                             (IF m.kind = "error" THEN "rejected" ELSE "resolved")
                      /\ s2.calls[k].msg = m
               /\ \A j \in DOMAIN s.calls : j # k => s2.calls[j] = s.calls[j]
               /\ s2.timers = s.timers

\* An error response rejected request 2 while request 1 stays pending.
C9_Witness ==
    \E c \in Clients :
        /\ Len(clients[c].calls) = 2
        /\ clients[c].calls[2].state = "rejected"
        /\ clients[c].calls[2].msg = E2
        /\ clients[c].calls[2].cb = <<"reject">>
        /\ clients[c].calls[1].state = "pending"
        /\ DOMAIN clients[c].pendingRequests = {1}

\* C10: after disconnect() the client is not connected and holds no child;
\* a second disconnect() changes nothing, and neither does a disconnect() on
\* a client that never connected.
C10_DisconnectIdempotent ==
    \A c \in Clients :
        LET s == clients[c]
            d == DisconnectOp(s)
        IN /\ d.process = 0
           /\ ~d.connected
           /\ DisconnectOp(d) = d
           /\ s.conns = <<>> => d = s

\* disconnect() has run on a connected client: its child was killed.
C10_Witness ==
    \E c \in Clients :
        /\ clients[c].process = 0
        /\ ~clients[c].connected
        /\ clients[c].procs = <<"killed">>
        /\ clients[c].conns = <<NewConn(1, 1, "resolved")>>

-----------------------------------------------------------------------------
(* Properties of MCPManager, under SpecManager *)

Last(q) == q[Len(q)]

\* executeTool(fullName) reaches client c with the tool name `name` and
\* nobody else: when c is connected the request is written to its child, and
\* otherwise nothing is written at all.
SentOnlyTo(m, fullName, c, name) ==
    LET m2 == ExecuteToolOp(m, fullName)
        x  == Last(m2.execs)
    IN /\ \A j \in DOMAIN m.heap : j # c => m2.heap[j] = m.heap[j]
       /\ IF m.heap[c].connected
          THEN /\ x.outcome = "sent"
               /\ x.inst = c
               /\ x.name = name
               /\ m2.heap[c].stdin =
                      Append(m.heap[c].stdin,
                             StdinLine(m.heap[c].process, "request",
                                       m.heap[c].requestId + 1, "tools/call"))
          ELSE m2.heap[c] = m.heap[c]

\* C11: when two servers of the table each list a tool of the same name, the
\* two entries have distinct full names, each the name of its server, "__"
\* and the tool name, and executeTool on each full name sends tools/call with
\* the tool name to the client of that entry's server and to no other client.
C11_RoutedToOwner ==
    \A i, k \in DOMAIN mgr.allTools :
        LET e == mgr.allTools[i]
            f == mgr.allTools[k]
        IN (/\ e.serverName # f.serverName
            /\ e.name = f.name
            /\ e.serverName \in DOMAIN mgr.clients
            /\ f.serverName \in DOMAIN mgr.clients) =>
               /\ e.fullName # f.fullName
               /\ e.fullName = FullName(e.serverName, e.name)
               /\ SentOnlyTo(mgr, e.fullName, mgr.clients[e.serverName], e.name)

\* C12: no two entries of allTools have the same full name.
C12_QualifiedNamesUnique ==
    \A i, k \in DOMAIN mgr.allTools :
        i # k => mgr.allTools[i].fullName # mgr.allTools[k].fullName

\* The j-th addServer call returns success:false in this step.
ReturnsFailure(j) ==
    /\ j \in DOMAIN mgr'.adds
    /\ mgr'.adds[j].result = "failure"
    /\ (j \in DOMAIN mgr.adds => mgr.adds[j].result = "pending")

ProbeNames ==
    ExecNames \cup {ToolBX, NameA, NameAB, FullName(NameA, ToolBX) \o <<"x">>,
                    FullName(NameAB, ToolBX), <<>>}

InCatalog(m, fullName) == \E i \in DOMAIN m.allTools : m.allTools[i].fullName = fullName

\* C14: executeTool with a name that is the full name of no entry throws
\* "Unknown tool"; nothing is written to any child and the manager and its
\* clients (their pending tables included) are as before.
C14_UnknownToolRejected ==
    \A f \in ProbeNames :
        ~InCatalog(mgr, f) =>
            LET m2 == ExecuteToolOp(mgr, f) IN
            /\ Last(m2.execs).outcome = "Unknown tool"
            /\ m2.heap = mgr.heap
            /\ m2.clients = mgr.clients
            /\ m2.allTools = mgr.allTools

\* executeTool was called with the bare tool name of a listed tool of a
\* connected server, and threw "Unknown tool".
C14_Witness ==
    /\ mgr.execs # <<>>
    /\ mgr.execs[1].outcome = "Unknown tool"
    /\ mgr.execs[1].fullName = ToolX
    /\ \E i \in DOMAIN mgr.allTools :
           /\ mgr.allTools[i].name = ToolX
           /\ mgr.heap[mgr.clients[mgr.allTools[i].serverName]].connected
           /\ mgr.heap[mgr.clients[mgr.allTools[i].serverName]].stdin[
                  Len(mgr.heap[mgr.clients[mgr.allTools[i].serverName]].stdin)].method
                  # "tools/call"

\* C15: when the child of a server of the table has exited (connected is
\* false), executeTool on the full name of each tool of that server throws
\* "Server not connected" and writes nothing, and the exit leaves the list of
\* tools as it was.
C15_ExitedProviderRejected ==
    \A n \in DOMAIN mgr.clients :
        LET c == mgr.clients[n] IN
        /\ (mgr.heap[c].procs[1] = "closed" /\ ~mgr.heap[c].connected) =>
               \A i \in DOMAIN mgr.allTools :
                   mgr.allTools[i].serverName = n =>
                       LET m2 == ExecuteToolOp(mgr, mgr.allTools[i].fullName) IN
                       /\ Last(m2.execs).outcome = "Server not connected"
                       /\ m2.heap = mgr.heap
                       /\ m2.allTools = mgr.allTools
        /\ mgr.heap[c].procs[1] \in {"running", "killed"} =>
               AddServerContinue([mgr EXCEPT !.heap[c] = CloseOp(@, 1)], c).allTools
                   = mgr.allTools

\* C16: disconnectAll leaves getTools() empty and getStatus() empty, and
\* has disconnected every client that was in the table (its child killed,
\* process null, connected false) and no other; with an empty table it
\* changes nothing.
C16_DisconnectAllEmpties ==
    LET m2 == DisconnectAllOp(mgr) IN
    /\ GetTools(m2) = <<>>
    /\ DOMAIN GetStatus(m2) = {}
    /\ \A c \in DOMAIN mgr.heap :
           IF c \in Values(mgr.clients)
           THEN /\ m2.heap[c] = DisconnectOp(mgr.heap[c])
                /\ m2.heap[c].process = 0
                /\ ~m2.heap[c].connected
                /\ m2.heap[c].procs[1] # "running"
           ELSE m2.heap[c] = mgr.heap[c]
    /\ mgr.clients = EmptyMap => m2 = mgr

\* disconnectAll was called with two servers in the table: both children
\* were killed by it and the table and the list are empty.
C16_Witness ==
    /\ Len(mgr.heap) = 2
    /\ mgr.heap[1].procs = <<"killed">>
    /\ mgr.heap[2].procs = <<"killed">>
    /\ mgr.heap[1].tools # <<>>
    /\ mgr.clients = EmptyMap
    /\ mgr.allTools = <<>>
    /\ mgr.adds[1].name # mgr.adds[2].name

-----------------------------------------------------------------------------
(* Properties of NLPQueryConverter.convert, under SpecConvert *)

\* What convert returned.
Returned == conv.result[1]

\* The string without the whitespace at its two ends.
Stripped(s) ==
    LET I == {i \in DOMAIN s : s[i] # Space} IN
    IF I = {} THEN <<>>
    ELSE SubSeq(s, CHOOSE i \in I : \A j \in I : i <= j,
                   CHOOSE i \in I : \A j \in I : j <= i)

\* The string begins, after its leading whitespace and in any letter case,
\* with SELECT or FIND.
BeginsWithKeyword(s) ==
    /\ Stripped(s) # <<>>
    /\ \E kw \in {<<"s", "e", "l", "e", "c", "t">>, <<"f", "i", "n", "d">>} :
           StartsWith(ToLowerCase(Stripped(s)[1]), kw)

\* Pattern k matches the string and no pattern listed before it does.
FirstToMatch(k, s) ==
    /\ Match(k, s).ok
    /\ \A j \in 1..(k - 1) : ~Match(j, s).ok

\* The result of pattern k on the string.
ByPattern(k, s) ==
    Result(Some(Instantiate(Patterns[k].template, Match(k, s).cap)),
           ConfPattern, FALSE, k, Null, Null)

\* C17 as stated: for every input that matches pattern k and no pattern
\* listed before k, convert returns the template of k applied to the match,
\* with confidence 0.9.
C17_EarliestRuleWins ==
    conv.result # NoResult =>
        \A k \in DOMAIN Patterns :
            FirstToMatch(k, conv.input) => Returned = ByPattern(k, conv.input)

\* C17, amended: the same for every input that does not begin with SELECT
\* or FIND.
C17_EarliestRuleWinsUnlessRaw ==
    conv.result # NoResult =>
        \A k \in DOMAIN Patterns :
            (FirstToMatch(k, conv.input) /\ ~BeginsWithKeyword(conv.input)) =>
                Returned = ByPattern(k, conv.input)

\* convert was called with an input that two patterns match (the listing of
\* accounts and the accounts of a region), and returned the result of the
\* one listed first.
C17_Witness ==
    /\ conv.result # NoResult
    /\ ~BeginsWithKeyword(conv.input)
    /\ Match(1, conv.input).ok
    /\ Match(2, conv.input).ok
    /\ Match(2, conv.input).cap # <<>>
    /\ Returned = ByPattern(1, conv.input)

\* C18 as stated: for every input that begins, after leading whitespace and
\* in any letter case, with SELECT or FIND, convert returns that input
\* unchanged as the query, with confidence 1.0 and isRaw set.
C18_RawPassthroughUnchanged ==
    (conv.result # NoResult /\ BeginsWithKeyword(conv.input)) =>
        Returned = Result(Some(conv.input), ConfRaw, TRUE, 0, Null, Null)

\* C18, amended: the query returned is the input without the whitespace at
\* its two ends, otherwise unchanged (its letter case included), whether or
\* not a pattern matches the input.
C18_RawPassthroughTrimmed ==
    (conv.result # NoResult /\ BeginsWithKeyword(conv.input)) =>
        Returned = Result(Some(Stripped(conv.input)), ConfRaw, TRUE, 0, Null, Null)

\* convert was called with an input in mixed case with whitespace around
\* it, which begins with FIND and which the first pattern matches, and
\* returned it as a raw query.
C18_Witness ==
    /\ conv.result # NoResult
    /\ BeginsWithKeyword(conv.input)
    /\ Head(conv.input) = Space
    /\ Stripped(conv.input)[1] = <<"F", "i", "n", "d">>
    /\ Match(1, conv.input).ok
    /\ Returned.isRaw
    /\ Returned.soql = Some(Stripped(conv.input))

\* The patterns that list all records of an object, and the patterns that
\* filter them (accounts in a region, contacts at a name, opportunities
\* closing this month).
ListingRules == {1, 4, 6, 12, 15, 17}

FilterRules == {2, 5, 10}

ShowAccountsInCalifornia ==
    Join(<< <<"s", "h", "o", "w">>, <<"a", "c", "c", "o", "u", "n", "t", "s">>,
            <<"i", "n">>, <<"C", "a", "l", "i", "f", "o", "r", "n", "i", "a">> >>)

\* C19: whenever an input matches a listing pattern and a filter pattern,
\* the filter pattern is listed first; and 'show accounts in California'
\* gives the query of the accounts of that region.
C19_SpecificBeforeGeneric ==
    conv.result # NoResult =>
        /\ \A g \in ListingRules, f \in FilterRules :
               (Match(g, conv.input).ok /\ Match(f, conv.input).ok) => f < g
        /\ conv.input = ShowAccountsInCalifornia =>
               Returned = ByPattern(2, conv.input)

Confidences == {ConfObject, ConfPattern, ConfRaw}

\* C20: the result has a query or an error and never both: soql is null
\* exactly when error is present, the confidence is 0 exactly then, and
\* otherwise it is 0.5, 0.9 or 1.0.
C20_QueryXorError ==
    conv.result # NoResult =>
        /\ Returned.soql = Null <=> Returned.error # Null
        /\ Returned.confidence = ConfNone <=> Returned.error # Null
        /\ Returned.error = Null => Returned.confidence \in Confidences
        /\ Returned.soql # Null => Returned.soql[1] # <<>>

\* convert was called with an input without any known word and returned
\* the error, no query and confidence 0.
C20_Witness ==
    /\ conv.result # NoResult
    /\ Stripped(conv.input) # <<>>
    /\ Returned.error = Some(ErrorText)
    /\ Returned.soql = Null
    /\ Returned.confidence = ConfNone

\* The entity types: the name of each as the query has it, with its singular
\* and its plural in lower case.
EntityTypes ==
    {[entity |-> <<"A", "c", "c", "o", "u", "n", "t">>,
      words |-> {<<"a", "c", "c", "o", "u", "n", "t">>, <<"a", "c", "c", "o", "u", "n", "t", "s">>}],
     [entity |-> <<"C", "o", "n", "t", "a", "c", "t">>,
      words |-> {<<"c", "o", "n", "t", "a", "c", "t">>, <<"c", "o", "n", "t", "a", "c", "t", "s">>}],
     [entity |-> <<"L", "e", "a", "d">>,
      words |-> {<<"l", "e", "a", "d">>, <<"l", "e", "a", "d", "s">>}],
     [entity |-> <<"O", "p", "p", "o", "r", "t", "u", "n", "i", "t", "y">>,
      words |-> {<<"o", "p", "p", "o", "r", "t", "u", "n", "i", "t", "y">>, <<"o", "p", "p", "o", "r", "t", "u", "n", "i", "t", "i", "e", "s">>}],
     [entity |-> <<"C", "a", "s", "e">>,
      words |-> {<<"c", "a", "s", "e">>, <<"c", "a", "s", "e", "s">>}],
     [entity |-> <<"U", "s", "e", "r">>,
      words |-> {<<"u", "s", "e", "r">>, <<"u", "s", "e", "r", "s">>}]}

\* The words of a string: its maximal runs of letters, digits and underscores.
WholeWords(s) == {AllRuns(s)[i] : i \in DOMAIN AllRuns(s)}

\* The string contains, as a whole word in any letter case, the singular or
\* the plural of the entity type.
Names(e, s) == \E w \in WholeWords(s) : ToLowerCase(w) \in e.words

\* No pattern of the table matches the string.
MatchesNoRule(s) == \A k \in DOMAIN Patterns : ~Match(k, Stripped(s)).ok

\* The query on all records of an entity type, with the note that says so.
EntityQuery(e) ==
    Result(Some(<< <<"SELECT Id, Name FROM ">>, e.entity, <<" LIMIT 50">> >>),
           ConfObject, FALSE, 0,
           Some(<< <<"Could not parse specific query. Showing ">>, e.entity,
                   <<" records.">> >>),
           Null)

\* C21: for every input that matches no pattern and contains, as a whole
\* word in any letter case, the singular or the plural of an entity type,
\* convert returns 'SELECT Id, Name FROM <Entity> LIMIT 50' for an entity
\* type the input names, with confidence 0.5 and a suggestion.
C21_EntityFallback ==
    (/\ conv.result # NoResult
     /\ MatchesNoRule(conv.input)
     /\ \E e \in EntityTypes : Names(e, conv.input)) =>
        /\ \E e \in EntityTypes : Names(e, conv.input) /\ Returned = EntityQuery(e)
        /\ Returned.suggestion # Null
        /\ Returned.confidence = ConfObject

\* The input names no entity type.
NamesNoEntity(s) == \A e \in EntityTypes : ~Names(e, s)

\* The result of an input that is not understood.
NotUnderstoodResult == Result(Null, ConfNone, FALSE, 0, Null, Some(ErrorText))

\* C22 as stated: for every input that matches no pattern and names no
\* entity type, the empty and the blank input included, convert returns a
\* null query, confidence 0 and the fixed, non-empty error message.
C22_NotUnderstood ==
    (/\ conv.result # NoResult
     /\ MatchesNoRule(conv.input)
     /\ NamesNoEntity(conv.input)) =>
        /\ Returned = NotUnderstoodResult
        /\ ErrorText # ""

\* C22, amended: the same for every input that does not begin with SELECT
\* or FIND.
C22_NotUnderstoodUnlessRaw ==
    (/\ conv.result # NoResult
     /\ MatchesNoRule(conv.input)
     /\ NamesNoEntity(conv.input)
     /\ ~BeginsWithKeyword(conv.input)) =>
        /\ Returned = NotUnderstoodResult
        /\ ErrorText # ""

\* convert was called with a blank input and returned the error.
C22_Witness ==
    /\ conv.result # NoResult
    /\ conv.input = <<Space, Space>>
    /\ Returned.soql = Null
    /\ Returned.confidence = ConfNone
    /\ Returned.error = Some(ErrorText)

\* The patterns whose template puts group 1 of the match into the query.
InterpolatingRules ==
    {k \in DOMAIN Patterns :
        \E i \in DOMAIN Patterns[k].template :
            Patterns[k].template[i] \in {Cap, CapTrimmed}}

\* The pieces of the query that are the text of the template of pattern k.
TemplateTexts(k) ==
    {Patterns[k].template[i] : i \in DOMAIN Patterns[k].template} \ {Cap, CapTrimmed}

\* The word has a single quote that no backslash precedes.
BareQuote(w) ==
    \E i \in DOMAIN w : w[i] = "'" /\ (i = 1 \/ w[i - 1] # "\\")

\* C23: in the query of a pattern that puts group 1 of the match between the
\* quotes of a literal (accounts in/from, contacts at/for/from), the text
\* that comes from the input has no single quote without its escape.
C23_InterpolationEscaped ==
    (conv.result # NoResult /\ Returned.pattern \in InterpolatingRules) =>
        \A i \in DOMAIN Returned.soql[1] :
            Returned.soql[1][i] \notin TemplateTexts(Returned.pattern) =>
                ~BareQuote(Returned.soql[1][i])

-----------------------------------------------------------------------------
(* Properties of chatWithTools, under SpecChat *)

\* C24: chatWithTools runs at most 5 rounds and makes at most 6 model calls;
\* the tool calls it runs in round k are those of the k-th response, so none
\* of the sixth; on the sixth response it returns whatever tool calls that
\* response proposes, running none; and every call of chatWithTools ends.
C24_AtMostFiveRounds ==
    /\ [](/\ chat.iterations <= 5
          /\ chat.creates <= 6
          /\ \A i \in DOMAIN chat.runs :
                 /\ chat.runs[i].response <= 5
                 /\ chat.runs[i].iteration = chat.runs[i].response
          /\ (chat.pc = "model" /\ chat.creates = 6) =>
                 \A n \in 0..MaxToolCalls :
                     LET c == While([chat EXCEPT !.tool_calls = Some(n)]) IN
                     /\ c.pc = "returned"
                     /\ c.runs = chat.runs
                     /\ c.creates = 6)
    /\ (chat.pc # "idle") ~> (chat.pc \in {"returned", "threw"})

\* chatWithTools has returned after six model calls and five rounds, each
\* response with tool calls, the last one too; the tool calls of the first
\* five were run.
C24_Witness ==
    /\ chat.pc = "returned"
    /\ chat.creates = 6
    /\ chat.iterations = 5
    /\ chat.tool_calls = Some(MaxToolCalls)
    /\ Len(chat.runs) = 5 * MaxToolCalls
    /\ chat.runs[Len(chat.runs)].response = 5

-----------------------------------------------------------------------------
(* Properties of SalesforceMCPServer, under SpecServer *)

\* The responses written for line i.
ResponsesTo(i) == {j \in DOMAIN srv.stdout : srv.stdout[j].line = i}

\* Line i is a message with a method and an id.
IsRequestLine(i) == srv.lines[i] # GarbageLine /\ srv.lines[i].id # 0

\* Line i is a message with a method and no id.
IsNotificationLine(i) == srv.lines[i] # GarbageLine /\ srv.lines[i].id = 0

\* C25: for every request line with an id the server has read, its handler
\* does not end without a response; once it has ended there is exactly one
\* response line for it and never more; each response carries the id of its
\* own request, whatever the order of the responses, and either a result or
\* an error.
C25_OneResponsePerRequest ==
    \A i \in DOMAIN srv.lines :
        IsRequestLine(i) =>
            /\ srv.handlers[i] # "dropped"
            /\ Cardinality(ResponsesTo(i)) = (IF srv.handlers[i] = "written" THEN 1 ELSE 0)
            /\ \A j \in ResponsesTo(i) :
                   /\ srv.stdout[j].id = srv.lines[i].id
                   /\ srv.stdout[j].kind \in {"result", "error"}

\* C26: for a message with a method and no id the server writes no
\* response line.
C26_NotificationOneWay ==
    \A i \in DOMAIN srv.lines :
        IsNotificationLine(i) => ResponsesTo(i) = {}

-----------------------------------------------------------------------------
(* Properties of the processes and tables, under SpecManager and Spec *)

\* Every addServer call made so far has returned.
AllReturned == \A j \in DOMAIN mgr.adds : mgr.adds[j].stage = "done"

\* The child of the client of the j-th addServer call is running.
ChildRuns(j) == \E p \in DOMAIN mgr.heap[j].procs : mgr.heap[j].procs[p] = "running"

\* C27: when the addServer calls have returned, every child process one of
\* them spawned that is still running is the child of a client of the
\* table, which disconnectAll kills.
C27_NoOrphanProcess ==
    AllReturned =>
        \A j \in DOMAIN mgr.heap :
            ChildRuns(j) =>
                /\ j \in Values(mgr.clients)
                /\ ~DisconnectAllOp(mgr).heap[j].procs[1] = "running"

\* C28: for every sendRequest call of a client, its id is in the pending
\* table exactly when its promise is not settled and its timer is armed; a
\* call whose write failed for want of a child process has left no entry.
C28_PendingIffUnsettled ==
    \A c \in Clients : \A k \in DOMAIN clients[c].calls :
        LET s == clients[c] IN
        /\ s.calls[k].id \in DOMAIN s.pendingRequests
               <=> (s.calls[k].state = "pending" /\ HasTimer(s, k))
        /\ s.calls[k].by = "throw" => s.calls[k].id \notin DOMAIN s.pendingRequests

-----------------------------------------------------------------------------
(* Properties of the connected flag, under SpecReconnect *)

\* The child the client holds has answered the initialize request that the
\* connect() call which spawned it has sent.
Answered(s) ==
    \E j \in DOMAIN s.conns :
        /\ s.conns[j].pid = s.process
        /\ s.calls[s.conns[j].call].state = "resolved"
        /\ s.calls[s.conns[j].call].by = "response"

\* C29: connected is true only if the client holds a child process that
\* runs and has answered the handshake, and the exit of a child the client
\* no longer holds leaves the connected flag as it is.
C29_ConnectedMeansLiveChild ==
    LET s == clients[FrameClient] IN
    /\ s.connected =>
           /\ s.process # 0
           /\ s.procs[s.process] = "running"
           /\ Answered(s)
    /\ \A p \in DOMAIN s.procs :
           (p # s.process /\ s.procs[p] \in {"running", "killed"}) =>
               CloseOp(s, p).connected = s.connected

-----------------------------------------------------------------------------
(* Properties of the catalog and the table, under SpecManager *)

\* The entries of allTools that carry the server name n.
EntriesOf(n) == {i \in DOMAIN mgr.allTools : mgr.allTools[i].serverName = n}

\* C30: when the addServer calls have returned, every entry of allTools
\* carries a server name that is a key of the table, and for every server of
\* the table the toolCount of getStatus is the number of entries of allTools
\* with its name.
C30_CatalogMatchesTable ==
    AllReturned =>
        /\ \A i \in DOMAIN mgr.allTools : mgr.allTools[i].serverName \in DOMAIN mgr.clients
        /\ \A n \in DOMAIN mgr.clients :
               GetStatus(mgr)[n].toolCount = Cardinality(EntriesOf(n))

====
